---- MODULE Spec2Model ----
(***************************************************************************)
(* member-qa: the retrieval client (fetch_messages_page and                *)
(* fetch_all_messages), the /ask endpoint and the three answer extractors  *)
(* of app/main.py.                                                         *)
(*                                                                         *)
(* A string is a sequence of one-character strings.  A question or a       *)
(* message text is a sequence of tokens where the properties are about     *)
(* words.  Every await of the code (one HTTP request) is one step: the     *)
(* step that takes the response runs the code up to the next request or    *)
(* to the end of the call.                                                 *)
(***************************************************************************)
EXTENDS Integers, Sequences, FiniteSets, TLC

VARIABLES
    caller,        \* "none" | "fetch_all" | "ask": the entry point of the running call
    question,      \* AskRequest.question
    max_pages,     \* fetch_all_messages' parameter
    pc,            \* "idle" | "awaiting" (a request is in flight) | "done"
    items,         \* fetch_all_messages: items
    skip,          \* fetch_all_messages: skip
    iter,          \* fetch_all_messages: iterations of the for loop begun
    bi,            \* fetch_messages_page: index of `base` in bases
    hi,            \* fetch_messages_page: index of `hdr` in header_sets
    last_exc,      \* fetch_messages_page: last_exc
    req,           \* the request in flight
    result,        \* how the call ended
    pageCalls,     \* history: the skip of every fetch_messages_page call
    pageReturns,   \* history: every page fetch_messages_page returned
    nHttp,         \* history: requests sent for the current page
    lastResp,      \* history: the latest response of the current page
    sawErrStatus,  \* history: a response of the current page had a status >= 400
    pageExc,       \* history: the exception fetch_messages_page raised, if it did
    cars,          \* extract_car_count run
    fav,           \* extract_favorite_restaurants run
    trip           \* extract_trip_when_to_city run

fetchVars == <<caller, question, max_pages, pc, items, skip, iter, bi, hi, last_exc,
               req, result, pageCalls, pageReturns, nHttp, lastResp, sawErrStatus,
               pageExc>>
vars == <<fetchVars, cars, fav, trip>>

None == [kind |-> "None", code |-> 0, msg |-> ""]
NoResponse == [kind |-> "none", status |-> 0, json |-> FALSE, page |-> 0]

(***************************************************************************)
(* Configuration                                                           *)
(***************************************************************************)
PAGE_LIMIT == 2
MAX_PAGES == 2
MESSAGES_API_BASE == [scheme |-> "http", host |-> "november7"]

(***************************************************************************)
(* Strings                                                                 *)
(***************************************************************************)
IsSpace(c) == c = " "

\* str.lower on one character
Lower(c) ==
    CASE c = "T" -> "t"
      [] c = "A" -> "a"
      [] OTHER -> c

LowerStr(s) == [i \in 1..Len(s) |-> Lower(s[i])]

RECURSIVE LStrip(_)
LStrip(s) ==
    IF s # <<>> /\ IsSpace(Head(s)) THEN LStrip(Tail(s)) ELSE s

RECURSIVE RStrip(_)
RStrip(s) ==
    IF s # <<>> /\ IsSpace(s[Len(s)]) THEN RStrip(SubSeq(s, 1, Len(s) - 1)) ELSE s

\* str.strip()
Strip(s) == RStrip(LStrip(s))

\* re.sub(r"\s+", " ", s)
RECURSIVE CollapseSpaces(_)
CollapseSpaces(s) ==
    IF s = <<>> THEN <<>>
    ELSE IF IsSpace(Head(s))
         THEN <<" ">> \o CollapseSpaces(LStrip(s))
         ELSE <<Head(s)>> \o CollapseSpaces(Tail(s))

NAME_NORM(s) == CollapseSpaces(LowerStr(Strip(s)))

\* needle in hay
Contains(hay, needle) ==
    \E i \in 0..(Len(hay) - Len(needle)) : SubSeq(hay, i + 1, i + Len(needle)) = needle

(***************************************************************************)
(* Upstream: messages, pages, responses                                    *)
(***************************************************************************)
\* A JSON field of a message: absent (missing, null or ""), a string, or a
\* truthy value that is not a string (a number, a list).
Absent == [t |-> "absent", v |-> <<>>]
Str(s) == [t |-> "str", v |-> s]
NonStr == [t |-> "other", v |-> <<>>]

Message(u, m) == [dict |-> TRUE, user_name |-> u, message |-> m]

TomMsg == Message(Str(<<"T", " ", " ", "A">>), Str(<<"x">>))
AnnMsg == Message(Str(<<"A">>), Str(<<"y">>))
BareMsg == Message(Absent, Absent)
BlankMsg == Message(Str(<<"t">>), Str(<<" ">>))
BadNameMsg == Message(NonStr, Str(<<"x">>))
BadTextMsg == Message(Str(<<"T">>), NonStr)

\* What the upstream may hold: fetch_all_messages never looks into an item,
\* /ask does.
MessagePool(c) ==
    IF c = "ask" THEN {TomMsg, BareMsg, BadNameMsg} ELSE {TomMsg, AnnMsg}

MaxBatch == PAGE_LIMIT + 1

RECURSIVE SeqsUpTo(_, _)
SeqsUpTo(S, n) ==
    IF n = 0 THEN {<<>>}
    ELSE LET shorter == SeqsUpTo(S, n - 1)
         IN shorter \cup {Append(s, x) : s \in {t \in shorter : Len(t) = n - 1}, x \in S}

\* The body of a response: a JSON object with "items", a JSON object without
\* (or with a null) "items", a JSON value that is no object, or no JSON.
DictPage(batch) == [shape |-> "dict", items |-> batch]
NoItemsPage == [shape |-> "dict_noitems", items |-> <<>>]
ListPage == [shape |-> "list", items |-> <<>>]
NotJson == [shape |-> "notjson", items |-> <<>>]

Pages(c) == {DictPage(b) : b \in SeqsUpTo(MessagePool(c), MaxBatch)} \cup {NoItemsPage, ListPage}

Response(status, body) == [kind |-> "response", status |-> status, body |-> body]
TransportError == [kind |-> "error", status |-> 0, body |-> NotJson]

RetryStatuses == {400, 401}
ErrorStatuses == {404, 500}

(***************************************************************************)
(* Exceptions                                                              *)
(***************************************************************************)
HTTPStatusError(code) == [kind |-> "HTTPStatusError", code |-> code, msg |-> "status"]
RequestError(msg) == [kind |-> "RequestError", code |-> 0, msg |-> msg]
ValueError == [kind |-> "ValueError", code |-> 0, msg |-> "json"]
AttributeError == [kind |-> "AttributeError", code |-> 0, msg |-> "attribute"]

\* isinstance(e, httpx.HTTPError)
IsHTTPError(e) == e.kind \in {"HTTPStatusError", "RequestError"}

(***************************************************************************)
(* fetch_messages_page                                                     *)
(***************************************************************************)
flip_scheme(base) ==
    IF base.scheme = "https" THEN [base EXCEPT !.scheme = "http"]
    ELSE IF base.scheme = "http" THEN [base EXCEPT !.scheme = "https"]
    ELSE [base EXCEPT !.scheme = "https"]

bases == <<MESSAGES_API_BASE, flip_scheme(MESSAGES_API_BASE)>>

header_sets == <<{}, {"Accept"}, {"Accept", "User-Agent"}>>

\* client.get(url, params={"skip", "limit"}) with headers=hdr
Request(b, h, sk) ==
    [base |-> bases[b], headers |-> header_sets[h], skip |-> sk, limit |-> PAGE_LIMIT]

\* The body of the try for one (base, hdr): what the loop does with the response.
AttemptOutcome(resp, exc) ==
    IF resp.kind = "error"
    THEN [act |-> "caught", exc |-> RequestError("transport"), page |-> NotJson]
    ELSE IF resp.status >= 400
    THEN IF resp.status \in {400, 401}
         THEN [act |-> "continue", exc |-> exc, page |-> NotJson]
         ELSE [act |-> "caught", exc |-> HTTPStatusError(resp.status), page |-> NotJson]
    ELSE IF resp.body.shape = "notjson"
    THEN [act |-> "caught", exc |-> ValueError, page |-> NotJson]
    ELSE [act |-> "return", exc |-> exc, page |-> resp.body]

\* The two for loops: is there a (base, hdr) after (b, h), and which.
HasNextCombo(b, h) == h < Len(header_sets) \/ b < Len(bases)
\* The loops nested the other way round: every base for one header set.
NextComboBasesInner(b, h) ==
    IF b < Len(bases) THEN [b |-> b + 1, h |-> h] ELSE [b |-> 1, h |-> h + 1]

NextCombo(b, h) ==
    IF h < Len(header_sets) THEN [b |-> b, h |-> h + 1] ELSE [b |-> b + 1, h |-> 1]

\* After the loops: the exception the function raises.
Exhausted(exc) ==
    IF IsHTTPError(exc) THEN exc ELSE RequestError("All attempts failed")

(***************************************************************************)
(* Intents, filter and answers of /ask                                     *)
(***************************************************************************)
\* A question is a sequence of tokens: " " (whitespace), or a phrase: "TRIP"
\* ("when is T planning her trip to CITY?"), "CARS" ("how many cars does T
\* have?"), "FAV" ("what are T's favorite restaurants?"), "OTHER" (other text).
QuestionTokens == {" ", "TRIP", "CARS", "FAV", "OTHER"}

\* The name every phrase asks about (m.group(1)).
AskedName == <<"T">>

\* TRIP_Q_RE ends in \s*\??\s*$: the trip phrase matches only at the end.
TRIP_Q_RE(q) == q # <<>> /\ RStrip(q)[Len(RStrip(q))] = "TRIP"
CARS_Q_RE(q) == \E i \in 1..Len(q) : q[i] = "CARS"
FAV_Q_RE(q) == \E i \in 1..Len(q) : q[i] = "FAV"

\* The order of the three searches in ask.
Intent(q) ==
    IF TRIP_Q_RE(q) THEN "trip"
    ELSE IF CARS_Q_RE(q) THEN "cars"
    ELSE IF FAV_Q_RE(q) THEN "favorites"
    ELSE "unknown"

\* messages_for_user from message i on; raised: an AttributeError left the loop
\* (m.get on an item that is no object, .strip() on a value that is no string).
RECURSIVE FilterFrom(_, _, _, _)
FilterFrom(all_msgs, target, i, out) ==
    IF i > Len(all_msgs) THEN [raised |-> FALSE, out |-> out]
    ELSE LET m == all_msgs[i]
         IN IF ~m.dict \/ m.user_name.t = "other"
            THEN [raised |-> TRUE, out |-> out]
            ELSE IF Contains(NAME_NORM(m.user_name.v), target)
            THEN IF m.message.t = "other"
                 THEN [raised |-> TRUE, out |-> out]
                 ELSE IF Strip(m.message.v) # <<>>
                      THEN FilterFrom(all_msgs, target, i + 1, Append(out, m.message.v))
                      ELSE FilterFrom(all_msgs, target, i + 1, out)
            ELSE FilterFrom(all_msgs, target, i + 1, out)

messages_for_user(all_msgs, name_query) ==
    FilterFrom(all_msgs, NAME_NORM(name_query), 1, <<>>)

\* How a call ends.  /ask: rejected (HTTPException 400), an answer, or an
\* exception that leaves the handler.
Rejected == [kind |-> "rejected"]
Escaped(exc) == [kind |-> "raised", exc |-> exc]
Answer(a) == [kind |-> "answer", answer |-> a]
Returned(its) == [kind |-> "returned", items |-> its]

Plain(a) == [a |-> a, code |-> 0, intent |-> "", texts |-> <<>>, msg |-> ""]
Fallback == Plain("fallback")
UpstreamStatus(code) == [Plain("upstream_status") EXCEPT !.code = code]
NetworkFailed(msg) == [Plain("network") EXCEPT !.msg = msg]
Unexpected == Plain("unexpected")
NoMessages == Plain("no_messages")
\* The extractor's value for these texts, or the intent's "not found" string.
Extracted(intent, texts) == [Plain("extracted") EXCEPT !.intent = intent, !.texts = texts]

\* ask, after fetch_all_messages returned all_msgs
\* The messages filtered before the question is classified.
AskAfterFetchFilterFirst(q, all_msgs) ==
    LET f == messages_for_user(all_msgs, AskedName)
    IN IF f.raised THEN Escaped(AttributeError)
       ELSE IF Intent(q) = "unknown" THEN Answer(Fallback)
       ELSE IF f.out = <<>> THEN Answer(NoMessages)
       ELSE Answer(Extracted(Intent(q), f.out))

AskAfterFetch(q, all_msgs) ==
    IF Intent(q) = "unknown" THEN Answer(Fallback)
    ELSE LET f == messages_for_user(all_msgs, AskedName)
         IN IF f.raised THEN Escaped(AttributeError)
            ELSE IF f.out = <<>> THEN Answer(NoMessages)
            ELSE Answer(Extracted(Intent(q), f.out))

\* ask, the except clauses around fetch_all_messages
AskOnException(exc) ==
    IF exc.kind = "HTTPStatusError" THEN Answer(UpstreamStatus(exc.code))
    ELSE IF exc.kind = "RequestError" THEN Answer(NetworkFailed(exc.msg))
    ELSE Answer(Unexpected)

(***************************************************************************)
(* The calls and their steps                                               *)
(***************************************************************************)
\* The call ends: fetch_all_messages returns to its caller.
FetchReturns(its) ==
    /\ pc' = "done"
    /\ items' = its
    /\ result' = IF caller' = "ask" THEN AskAfterFetch(Strip(question'), its)
                 ELSE Returned(its)
    /\ bi' = 1
    /\ hi' = 1
    /\ last_exc' = None
    /\ req' = None
    /\ UNCHANGED nHttp

\* An exception leaves fetch_all_messages.
FetchRaises(exc) ==
    /\ pc' = "done"
    /\ result' = IF caller' = "ask" THEN AskOnException(exc) ELSE Escaped(exc)
    /\ bi' = 1
    /\ hi' = 1
    /\ last_exc' = None
    /\ req' = None
    /\ UNCHANGED <<items, nHttp>>

\* fetch_messages_page(skip=sk) is called and sends its first request.
CallPage(sk) ==
    /\ pc' = "awaiting"
    /\ bi' = 1
    /\ hi' = 1
    /\ last_exc' = None
    /\ req' = Request(1, 1, sk)
    /\ nHttp' = 1
    /\ sawErrStatus' = FALSE
    /\ pageCalls' = Append(pageCalls, sk)

\* fetch_all_messages(max_pages) up to its first await.
BeginFetch(mp) ==
    /\ max_pages' = mp
    /\ pageReturns' = <<>>
    /\ pageExc' = None
    /\ lastResp' = NoResponse
    /\ IF mp > 0
       THEN /\ CallPage(0)
            /\ items' = <<>>
            /\ skip' = 0
            /\ iter' = 1
            /\ result' = None
       ELSE /\ FetchReturns(<<>>)
            /\ skip' = 0
            /\ iter' = 0
            /\ UNCHANGED <<sawErrStatus, pageCalls>>

\* History: what the response was, and of which page call.
Seen(resp) ==
    [kind |-> resp.kind, status |-> resp.status, json |-> resp.body.shape # "notjson",
     page |-> Len(pageCalls)]

\* batch = page.get("items", []) or []: the page is a JSON object here.
BatchOf(page) == page.items

\* items.extend(batch)
Extend(its, batch) == its \o batch

\* if len(batch) < PAGE_LIMIT: break
IsShort(batch) == Len(batch) < PAGE_LIMIT

\* skip counted in pages, not in items
NextSkipByOne(sk) == sk + 1

\* skip += PAGE_LIMIT
NextSkip(sk) == sk + PAGE_LIMIT

\* range(max_pages + 1)
HasNextIterationInclusive(i, mp) == i <= mp

\* for _ in range(max_pages): is there another iteration after iteration i
HasNextIteration(i, mp) == i < mp

\* The rest of the loop body of fetch_all_messages once the page is there.
GotPage(page) ==
    /\ pageReturns' = Append(pageReturns, page)
    /\ pageExc' = None
    /\ IF page.shape \notin {"dict", "dict_noitems"}
       THEN /\ FetchRaises(AttributeError)
            /\ UNCHANGED <<skip, iter, sawErrStatus, pageCalls>>
       ELSE LET batch == BatchOf(page)
            IN IF batch = <<>>
               THEN /\ FetchReturns(items)
                    /\ UNCHANGED <<skip, iter, sawErrStatus, pageCalls>>
               ELSE IF IsShort(batch)
               THEN /\ FetchReturns(Extend(items, batch))
                    /\ UNCHANGED <<skip, iter, sawErrStatus, pageCalls>>
               ELSE IF HasNextIteration(iter, max_pages)
               THEN /\ items' = Extend(items, batch)
                    /\ skip' = NextSkip(skip)
                    /\ iter' = iter + 1
                    /\ CallPage(NextSkip(skip))
                    /\ UNCHANGED result
               ELSE /\ FetchReturns(Extend(items, batch))
                    /\ skip' = NextSkip(skip)
                    /\ UNCHANGED <<iter, sawErrStatus, pageCalls>>

\* The loops of fetch_messages_page go on to the next (base, hdr).
NextAttempt(exc) ==
    LET c == NextCombo(bi, hi)
    IN /\ bi' = c.b
       /\ hi' = c.h
       /\ last_exc' = exc
       /\ req' = Request(c.b, c.h, skip)
       /\ nHttp' = nHttp + 1
       /\ UNCHANGED <<pc, items, skip, iter, result, pageCalls, pageReturns, pageExc>>

\* The loops of fetch_messages_page are over: it raises.
PageFails(exc) ==
    /\ pageExc' = Exhausted(exc)
    /\ FetchRaises(Exhausted(exc))
    /\ UNCHANGED <<skip, iter, pageCalls, pageReturns>>

\* The response to the request in flight arrives.
HandleResponse(resp) ==
    LET o == AttemptOutcome(resp, last_exc)
    IN /\ pc = "awaiting"
       /\ lastResp' = Seen(resp)
       /\ UNCHANGED <<caller, question, max_pages, cars, fav, trip>>
       /\ IF o.act = "return" THEN GotPage(o.page)
          ELSE /\ sawErrStatus' = (sawErrStatus \/ (resp.kind = "response" /\ resp.status >= 400))
               /\ IF HasNextCombo(bi, hi) THEN NextAttempt(o.exc) ELSE PageFails(o.exc)

MaxPagesArg == 3
MaxQuestionLen == 1

Questions == SeqsUpTo(QuestionTokens, MaxQuestionLen)

Idle == [n |-> 0]

Init ==
    /\ caller = "none"
    /\ question = <<>>
    /\ max_pages = 0
    /\ pc = "idle"
    /\ items = <<>>
    /\ skip = 0
    /\ iter = 0
    /\ bi = 1
    /\ hi = 1
    /\ last_exc = None
    /\ req = None
    /\ result = None
    /\ pageCalls = <<>>
    /\ pageReturns = <<>>
    /\ nHttp = 0
    /\ lastResp = NoResponse
    /\ sawErrStatus = FALSE
    /\ pageExc = None
    /\ cars = Idle
    /\ fav = Idle
    /\ trip = Idle

\* A direct call of fetch_all_messages(max_pages).
CallFetchAll ==
    \E mp \in 0..MaxPagesArg :
        /\ pc = "idle"
        /\ caller' = "fetch_all"
        /\ question' = <<>>
        /\ BeginFetch(mp)
        /\ UNCHANGED <<cars, fav, trip>>

\* POST /ask up to its first await.
AskCall ==
    \E q \in Questions :
        /\ pc = "idle"
        /\ caller' = "ask"
        /\ question' = q
        /\ UNCHANGED <<cars, fav, trip>>
        /\ IF Strip(q) = <<>>
           THEN /\ pc' = "done"
                /\ result' = Rejected
                /\ UNCHANGED <<max_pages, items, skip, iter, bi, hi, last_exc, req,
                               pageCalls, pageReturns, nHttp, lastResp, sawErrStatus,
                               pageExc>>
           ELSE BeginFetch(MAX_PAGES)

RespondPage == \E p \in Pages(caller) : HandleResponse(Response(200, p))
RespondNotJson == HandleResponse(Response(200, NotJson))
RespondRetryStatus == \E s \in RetryStatuses : HandleResponse(Response(s, NotJson))
RespondErrorStatus == \E s \in ErrorStatuses : HandleResponse(Response(s, NotJson))
RespondTransportError == HandleResponse(TransportError)

Next ==
    \/ CallFetchAll
    \/ AskCall
    \/ RespondPage
    \/ RespondNotJson
    \/ RespondRetryStatus
    \/ RespondErrorStatus
    \/ RespondTransportError

Spec == Init /\ [][Next]_vars


(***************************************************************************)
(* Properties                                                              *)
(***************************************************************************)
RECURSIVE Flatten(_)
Flatten(pages) ==
    IF pages = <<>> THEN <<>> ELSE Head(pages).items \o Flatten(Tail(pages))

OkStatus(r) == r.kind = "response" /\ r.status < 400

\* The order of the combinations as the specification lists them.
ComboOrder ==
    <<[scheme |-> "http", headers |-> {}],
      [scheme |-> "http", headers |-> {"Accept"}],
      [scheme |-> "http", headers |-> {"Accept", "User-Agent"}],
      [scheme |-> "https", headers |-> {}],
      [scheme |-> "https", headers |-> {"Accept"}],
      [scheme |-> "https", headers |-> {"Accept", "User-Agent"}]>>

\* The requests the running call may still send.
Budget == (max_pages - Len(pageCalls)) * Len(ComboOrder) + (Len(ComboOrder) - nHttp)

\* C1: fetch_all_messages(max_pages) makes at most max_pages page calls,
\* whatever the upstream answers, and ends: every response either ends the
\* call or leaves it fewer requests to send.
C1_PageCeiling ==
    [][/\ Len(pageCalls') <= max_pages'
       /\ Budget' >= 0
       /\ pc = "awaiting" => (pc' = "done" \/ (pc' = "awaiting" /\ Budget' < Budget))]_vars

\* The ceiling is what stops the call: every page was full or larger.
C1_Witness ==
    /\ pc = "done"
    /\ caller = "fetch_all"
    /\ max_pages = MaxPagesArg
    /\ Len(pageCalls) = max_pages
    /\ result.kind = "returned"
    /\ Len(result.items) > max_pages * PAGE_LIMIT

\* C2: the page calls ask for offsets 0, P, 2P, ... one at a time, each but the
\* first after a page of at least P items; the call returns the items of all
\* pages it got, in order and undeduplicated, and stops at the first page with
\* fewer than P items.
C2_Sequential ==
    /\ \A i \in 1..Len(pageCalls) : pageCalls[i] = (i - 1) * PAGE_LIMIT
    /\ Len(pageReturns) <= Len(pageCalls)
    /\ pc = "awaiting" => Len(pageCalls) = Len(pageReturns) + 1
    /\ \A i \in 1..(Len(pageCalls) - 1) :
           /\ pageReturns[i].shape = "dict"
           /\ Len(pageReturns[i].items) >= PAGE_LIMIT
    /\ (caller = "fetch_all" /\ result.kind = "returned") =>
           /\ Len(pageReturns) = Len(pageCalls)
           /\ result.items = Flatten(pageReturns)
           /\ (pageReturns # <<>> /\ Len(pageReturns[Len(pageReturns)].items) >= PAGE_LIMIT)
                  => Len(pageCalls) = max_pages

\* Two full pages, then a partial one; an item occurs on two pages.
C2_Witness ==
    /\ caller = "fetch_all"
    /\ result.kind = "returned"
    /\ Len(pageReturns) = 3
    /\ Len(pageReturns[3].items) = 1
    /\ pageReturns[1].items[1] = pageReturns[2].items[1]
    /\ Len(result.items) > 2 * PAGE_LIMIT

C3_Order ==
    /\ nHttp <= Len(ComboOrder)
    /\ pc = "awaiting" =>
           /\ nHttp >= 1
           /\ req.base.scheme = ComboOrder[nHttp].scheme
           /\ req.base.host = MESSAGES_API_BASE.host
           /\ req.headers = ComboOrder[nHttp].headers
           /\ req.skip = pageCalls[Len(pageCalls)]
    /\ (lastResp.kind = "response" /\ lastResp.status \in {400, 401}) =>
           \/ pc = "awaiting" /\ Len(pageCalls) = lastResp.page /\ nHttp > 1
           \/ pc = "done" /\ nHttp = Len(ComboOrder) /\ pageExc # None

Returned_(r) ==
    /\ Len(pageReturns) >= r.page
    /\ ~(pc = "awaiting" /\ Len(pageCalls) = r.page)

\* C3 as stated: the combinations are tried in the fixed order, a 400 or 401
\* moves to the next one, at most 6 requests are made for a page, and the
\* first response with a status below 400 is returned.
C3_FirstSuccessReturned ==
    /\ C3_Order
    /\ OkStatus(lastResp) => Returned_(lastResp)

\* C3 amended: ... and the first response with a status below 400 whose body
\* decodes as JSON is returned.
C3_FirstDecodableReturned ==
    /\ C3_Order
    /\ (OkStatus(lastResp) /\ lastResp.json) => Returned_(lastResp)

\* 400, 401, 400 on the configured base, then a page from the flipped base.
C3_Witness ==
    /\ pc = "done"
    /\ nHttp = 4
    /\ OkStatus(lastResp) /\ lastResp.json
    /\ result.kind = "returned"
    /\ Len(pageReturns) = 1

\* C4: a response with a failure status other than 400 and 401 ends the page
\* call at once: the status error is raised and no other combination is tried.
C4_OtherStatusTerminal ==
    (lastResp.kind = "response" /\ lastResp.status >= 400 /\ lastResp.status \notin {400, 401}) =>
        /\ pc = "done"
        /\ pageExc = HTTPStatusError(lastResp.status)

\* C5: a page call whose combinations all failed raises a status error if a
\* response had an error status, and a connectivity error only if none had;
\* /ask then answers with the status code.
C5_StatusErrorSurfaced ==
    pageExc # None =>
        /\ sawErrStatus => pageExc.kind = "HTTPStatusError"
        /\ ~sawErrStatus => pageExc.kind = "RequestError"
        /\ (sawErrStatus /\ caller = "ask") => result.answer.a = "upstream_status"

\* C6: /ask rejects exactly the blank questions, before any request; every
\* other call ends in an answer.
C6_OnlyBlankRejected ==
    (caller = "ask" /\ pc = "done") =>
        /\ result.kind \in {"rejected", "answer"}
        /\ result.kind = "rejected" <=> Strip(question) = <<>>
        /\ result.kind = "rejected" => pageCalls = <<>>

FetchFailed ==
    \/ pageExc # None
    \/ pageReturns # <<>> /\ pageReturns[Len(pageReturns)].shape = "list"

UnknownAsked ==
    /\ caller = "ask"
    /\ pc = "done"
    /\ Strip(question) # <<>>
    /\ Intent(Strip(question)) = "unknown"

\* C7 as stated: a question of no intent gets the fallback answer whatever
\* the retrieval did, as it would if it were classified before fetching.
C7_FallbackAlways ==
    UnknownAsked => result = Answer(Fallback)

\* C7 amended: a question of no intent gets the fallback answer whatever the
\* retrieved messages are, when the retrieval succeeds; when it fails the
\* answer is the upstream error answer.
C7_FallbackWhenFetched ==
    UnknownAsked =>
        /\ ~FetchFailed => result = Answer(Fallback)
        /\ FetchFailed =>
               /\ result.kind = "answer"
               /\ result.answer.a \in {"upstream_status", "network", "unexpected"}

\* A question of no intent, and messages among them one /ask could not filter.
C7_Witness ==
    /\ UnknownAsked
    /\ ~FetchFailed
    /\ \E i \in 1..Len(items) : items[i] = BadNameMsg
    /\ \E i \in 1..Len(items) : items[i] = TomMsg
    /\ result = Answer(Fallback)

(***************************************************************************)
(* extract_car_count                                                       *)
(***************************************************************************)
\* A text is a sequence of tokens, a space between two tokens: a word, or a
\* number written in decimal digits.
Word(w) == [w |-> w, d |-> <<>>]
Number(d) == [w |-> "", d |-> d]

IsNumber(tok) == tok.d # <<>>

\* int(m.group("count"))
RECURSIVE ToInt(_)
ToInt(d) ==
    IF d = <<>> THEN 0 ELSE 10 * ToInt(SubSeq(d, 1, Len(d) - 1)) + d[Len(d)]

\* str(best)
RECURSIVE ToStr(_)
ToStr(n) ==
    IF n < 10 THEN <<n>> ELSE Append(ToStr(n \div 10), n % 10)

\* (?P<count>\d+)\s+cars?\b at token i
MentionAt(t, i) ==
    /\ i >= 1
    /\ i < Len(t)
    /\ IsNumber(t[i])
    /\ t[i + 1].w \in {"car", "cars"}

NoMatch == [matched |-> FALSE, count |-> 0]
Match(c) == [matched |-> TRUE, count |-> c]

\* CARS_PATTERNS[0].search(t): the leftmost "<digits> cars"
CountSearch(t) ==
    IF \E i \in 1..Len(t) : MentionAt(t, i)
    THEN LET i == CHOOSE i \in 1..Len(t) :
                      MentionAt(t, i) /\ \A j \in 1..(i - 1) : ~MentionAt(t, j)
         IN Match(ToInt(t[i].d))
    ELSE NoMatch

\* CARS_PATTERNS[1].search(t): has|own|owns, then [^\n]* (greedy: it runs to the
\* last "<digits> cars" of the text)
OwnSearch(t) ==
    IF \E h \in 1..Len(t), i \in 1..Len(t) :
           t[h].w \in {"has", "own", "owns"} /\ h < i /\ MentionAt(t, i)
    THEN LET i == CHOOSE i \in 1..Len(t) :
                      MentionAt(t, i) /\ \A j \in (i + 1)..Len(t) : ~MentionAt(t, j)
         IN Match(ToInt(t[i].d))
    ELSE NoMatch

CARS_PATTERNS(t) == <<CountSearch(t), OwnSearch(t)>>

NoCount == [found |-> FALSE, value |-> 0]

\* best = c if best is None or c > best else best
Better(best, c) ==
    IF ~best.found \/ c > best.value THEN [found |-> TRUE, value |-> c] ELSE best

\* The body of `for t in texts`: each pattern is searched once.
RECURSIVE ScanPatterns(_, _)
ScanPatterns(ms, best) ==
    IF ms = <<>> THEN best
    ELSE ScanPatterns(Tail(ms), IF Head(ms).matched THEN Better(best, Head(ms).count) ELSE best)

\* return str(best) if best is not None else None
CarResult(best) ==
    IF best.found THEN [none |-> FALSE, str |-> ToStr(best.value)]
    ELSE [none |-> TRUE, str |-> <<>>]

MaxCarTexts == 2
MaxCarTokens == 4

CarTokens ==
    {Word("has"), Word("cars"), Word("x"), Number(<<9>>), Number(<<1, 0>>)}

\* The texts messages_for_user passes on are not blank.
CarTexts == SeqsUpTo(CarTokens, MaxCarTokens) \ {<<>>}

\* Every "<digits> cars" of a text.
Mentions(t) == {ToInt(t[i].d) : i \in {j \in 1..Len(t) : MentionAt(t, j)}}

\* extract_car_count is called: best = None.
CarsBegin ==
    /\ cars = Idle
    /\ cars' = [n |-> 0, last |-> <<>>, best |-> NoCount, seen |-> {}, done |-> FALSE,
                result |-> CarResult(NoCount)]
    /\ UNCHANGED <<fetchVars, fav, trip>>

\* One iteration of `for t in texts`.
CarsScan ==
    \E t \in CarTexts :
        /\ cars # Idle
        /\ ~cars.done
        /\ cars.n < MaxCarTexts
        /\ cars' = [cars EXCEPT !.n = @ + 1,
                                !.last = t,
                                !.best = ScanPatterns(CARS_PATTERNS(t), @),
                                !.seen = @ \cup Mentions(t)]
        /\ UNCHANGED <<fetchVars, fav, trip>>

\* texts is exhausted: the function returns.
CarsReturn ==
    /\ cars # Idle
    /\ ~cars.done
    /\ cars' = [cars EXCEPT !.done = TRUE, !.result = CarResult(cars.best)]
    /\ UNCHANGED <<fetchVars, fav, trip>>

NextCars == CarsBegin \/ CarsScan \/ CarsReturn

SpecCars == Init /\ [][NextCars]_vars

SetMax(S) == CHOOSE m \in S : \A x \in S : x <= m

\* C8: extract_car_count returns the greatest count of all "<digits> cars"
\* mentions of all texts, several in one text included, and None when there
\* is no mention.
C8_MaxOfAllMentions ==
    (cars # Idle /\ cars.done) =>
        IF cars.seen = {} THEN cars.result.none
        ELSE /\ ~cars.result.none
             /\ cars.result.str = ToStr(SetMax(cars.seen))

(***************************************************************************)
(* extract_favorite_restaurants                                            *)
(***************************************************************************)
\* A text is a sequence of tokens with nothing between two tokens: a word
\* (a name, "and", "loves", the phrase "favorite restaurants:"), or one
\* character: " ", "," or ".".
IsWord(tok) == tok \notin {" ", ",", "."}

\* str.lower on a word
LowerWord(w) ==
    CASE w = "Luigi's" -> "luigi's"
      [] w = "LUIGI'S" -> "luigi's"
      [] w = "Pancho's" -> "pancho's"
      [] w = "And" -> "and"
      [] w = "Paris" -> "paris"
      [] w = "London" -> "london"
      [] w = "New" -> "new"
      [] w = "York" -> "york"
      [] OTHER -> w

LowerText(t) == [i \in 1..Len(t) |-> LowerWord(t[i])]

\* The number of spaces of t from token i on.
RECURSIVE SpacesAt(_, _)
SpacesAt(t, i) ==
    IF i <= Len(t) /\ t[i] = " " THEN 1 + SpacesAt(t, i + 1) ELSE 0

NoList == [matched |-> FALSE, list |-> <<>>]
List(l) == [matched |-> TRUE, list |-> l]

\* FAV_PATTERNS[0].search(t): favorite\s+restaurants?\s*:?\s*(?P<list>.+)$
\* With text after the phrase the list is that text from its first token that
\* is no space on; with spaces only, the last space; with nothing, :? gives
\* the colon back and the list is ":".
PhraseSearch(t) ==
    IF \E i \in 1..Len(t) : t[i] = "favorite restaurants:"
    THEN LET i == CHOOSE i \in 1..Len(t) :
                      /\ t[i] = "favorite restaurants:"
                      /\ \A j \in 1..(i - 1) : t[j] # "favorite restaurants:"
             rest == SubSeq(t, i + 1, Len(t))
         IN IF LStrip(rest) # <<>> THEN List(LStrip(rest))
            ELSE IF rest # <<>> THEN List(<<" ">>)
            ELSE List(<<":">>)
    ELSE NoList

\* NAME(\s+NAME)*(\s*,\s*(?:and\s+)?NAME(\s+NAME)*)* with NAME = [A-Z][\w'&]+
\* under (?i): words, of which "and" is one, with spaces or one comma between.
IsNameList(l) ==
    /\ l # <<>>
    /\ IsWord(l[1])
    /\ IsWord(l[Len(l)])
    /\ \A i \in 1..Len(l) : l[i] # "."
    /\ \A i \in 1..(Len(l) - 1) : ~(IsWord(l[i]) /\ IsWord(l[i + 1]))
    /\ \A i \in 1..Len(l), j \in 1..Len(l) :
           (i < j /\ l[i] = "," /\ l[j] = ",") => \E k \in i..j : IsWord(l[k])

\* The list FAV_PATTERNS[1] captures at the verb at token i: the longest.
LoveListAt(t, i) ==
    LET from == i + 1 + SpacesAt(t, i + 1)
        ends == {e \in from..Len(t) : IsNameList(SubSeq(t, from, e))}
    IN IF t[i] \in {"love", "loves", "like", "likes"} /\ SpacesAt(t, i + 1) > 0 /\ ends # {}
       THEN List(SubSeq(t, from, CHOOSE e \in ends : \A x \in ends : x <= e))
       ELSE NoList

\* FAV_PATTERNS[1].search(t)
LoveSearch(t) ==
    IF \E i \in 1..Len(t) : LoveListAt(t, i).matched
    THEN LoveListAt(t, CHOOSE i \in 1..Len(t) :
                           /\ LoveListAt(t, i).matched
                           /\ \A j \in 1..(i - 1) : ~LoveListAt(t, j).matched)
    ELSE NoList

FAV_PATTERNS(t) == <<PhraseSearch(t), LoveSearch(t)>>

\* The length of the separator \s*,\s*|\s+and\s+ that starts at token i; 0: none.
SeparatorAt(raw, i) ==
    LET k == SpacesAt(raw, i)
    IN IF i + k <= Len(raw) /\ raw[i + k] = ","
       THEN k + 1 + SpacesAt(raw, i + k + 1)
       ELSE IF k > 0 /\ i + k <= Len(raw) /\ raw[i + k] = "and" /\ SpacesAt(raw, i + k + 1) > 0
       THEN k + 1 + SpacesAt(raw, i + k + 1)
       ELSE 0

\* re.split(r"\s*,\s*|\s+and\s+", raw) from token i on, cur the piece begun
RECURSIVE SplitFrom(_, _, _)
SplitFrom(raw, i, cur) ==
    IF i > Len(raw) THEN <<cur>>
    ELSE IF SeparatorAt(raw, i) > 0
    THEN <<cur>> \o SplitFrom(raw, i + SeparatorAt(raw, i), <<>>)
    ELSE SplitFrom(raw, i + 1, Append(cur, raw[i]))

\* i.strip(". ")
RECURSIVE StripDots(_)
StripDots(s) ==
    IF s # <<>> /\ s[1] \in {".", " "} THEN StripDots(Tail(s))
    ELSE IF s # <<>> /\ s[Len(s)] \in {".", " "} THEN StripDots(SubSeq(s, 1, Len(s) - 1))
    ELSE s

\* [i.strip().strip(". ") for i in items if i.strip()]
RECURSIVE Cleaned(_)
Cleaned(pieces) ==
    IF pieces = <<>> THEN <<>>
    ELSE IF Strip(Head(pieces)) # <<>>
    THEN <<StripDots(Strip(Head(pieces)))>> \o Cleaned(Tail(pieces))
    ELSE Cleaned(Tail(pieces))

\* The loop over items with `seen` and `ordered`.
RECURSIVE Dedup(_, _, _)
Dedup(its, seen, ordered) ==
    IF its = <<>> THEN ordered
    ELSE IF LowerText(Head(its)) \in seen
    THEN Dedup(Tail(its), seen, ordered)
    ELSE Dedup(Tail(its), seen \cup {LowerText(Head(its))}, Append(ordered, Head(its)))

\* The items of the returned string: ", ".join(ordered)
FavItems(raw) == Dedup(Cleaned(SplitFrom(raw, 1, <<>>)), {}, <<>>)

\* The body of `for t in texts`: the first pattern that matches decides.
FavOfText(t) ==
    LET ms == FAV_PATTERNS(t)
    IN IF ms[1].matched THEN [found |-> TRUE, raw |-> ms[1].list, items |-> FavItems(ms[1].list)]
       ELSE IF ms[2].matched
       THEN [found |-> TRUE, raw |-> ms[2].list, items |-> FavItems(ms[2].list)]
       ELSE [found |-> FALSE, raw |-> <<>>, items |-> <<>>]

MaxFavTexts == 2
MaxFavNames == 3

FavNames == {"Luigi's", "LUIGI'S", "Pancho's"}
FavSeparators == {<<",">>, <<",", " ">>, <<" ", "and", " ">>, <<",", " ", "and", " ">>}

\* The lists of n names.
RECURSIVE NameLists(_)
NameLists(n) ==
    IF n = 1 THEN {<<x>> : x \in FavNames}
    ELSE {l \o sep \o <<x>> : l \in NameLists(n - 1), sep \in FavSeparators, x \in FavNames}

FavLists == UNION {NameLists(n) : n \in 1..MaxFavNames}

FavTexts ==
    {<<"thanks">>}
    \cup {<<"favorite restaurants:", " ">> \o l \o e : l \in FavLists, e \in {<<>>, <<".">>}}
    \cup {<<"loves", " ">> \o l \o e : l \in FavLists, e \in {<<>>, <<".">>}}

FavBegin ==
    /\ fav = Idle
    /\ fav' = [n |-> 0, last |-> <<>>, done |-> FALSE, found |-> FALSE, raw |-> <<>>,
               items |-> <<>>]
    /\ UNCHANGED <<fetchVars, cars, trip>>

\* One iteration of `for t in texts`: return at the first match.
FavScan ==
    \E t \in FavTexts :
        /\ fav # Idle
        /\ ~fav.done
        /\ fav.n < MaxFavTexts
        /\ LET r == FavOfText(t)
           IN fav' = [n |-> fav.n + 1, last |-> t, done |-> r.found, found |-> r.found,
                      raw |-> r.raw, items |-> r.items]
        /\ UNCHANGED <<fetchVars, cars, trip>>

\* texts is exhausted: return None.
FavReturnNone ==
    /\ fav # Idle
    /\ ~fav.done
    /\ fav' = [fav EXCEPT !.done = TRUE]
    /\ UNCHANGED <<fetchVars, cars, trip>>

NextFav == FavBegin \/ FavScan \/ FavReturnNone

SpecFav == Init /\ [][NextFav]_vars

\* C9: the list is split on commas and on the word "and", its items are
\* deduplicated ignoring case in first-seen order: "Luigi's, Pancho's, and
\* Luigi's" gives "Luigi's, Pancho's", no two items are equal ignoring case
\* and no item starts with the word "and".
C9_SplitAndDedup ==
    (fav # Idle /\ fav.done /\ fav.found) =>
        /\ \A i \in 1..Len(fav.items), j \in 1..Len(fav.items) :
               i # j => LowerText(fav.items[i]) # LowerText(fav.items[j])
        /\ \A i \in 1..Len(fav.items) :
               fav.items[i] # <<>> => LowerWord(fav.items[i][1]) # "and"
        /\ fav.raw = <<"Luigi's", ",", " ", "Pancho's", ",", " ", "and", " ", "Luigi's">>
               => fav.items = << <<"Luigi's">>, <<"Pancho's">> >>

(***************************************************************************)
(* extract_trip_when_to_city                                               *)
(***************************************************************************)
\* A text is a sequence of tokens, a space between two tokens: a word of
\* letters, a number ("3"), or a token of other characters ("(TBD)").  A
\* captured group is the string itself: words and " ".
IsAlpha(tok) == tok \notin {"3", "(TBD)"}

\* [A-Za-z0-9 ,./-]
IsWhenToken(tok) == tok # "(TBD)"

TripWords == {"trip", "travel", "fly", "flight", "going"}
DATE_WORDS == {"on", "around", "in", "by", "this", "next", "coming"}
ShortDateWords == {"on", "around", "in", "by"}

\* " ".join(words)
RECURSIVE JoinSpaces(_)
JoinSpaces(ws) ==
    IF Len(ws) <= 1 THEN ws ELSE <<Head(ws), " ">> \o JoinSpaces(Tail(ws))

\* [^\n]* is greedy: the last date word that has text after it; 0: none.
LastDateWord(t, dws) ==
    LET c == {d \in 1..(Len(t) - 1) : LowerWord(t[d]) \in dws}
    IN IF c = {} THEN 0 ELSE CHOOSE d \in c : \A x \in c : x <= d

\* The last token of the run of words that begins at token i.
RECURSIVE RunEnd(_, _)
RunEnd(t, i) ==
    IF i + 1 <= Len(t) /\ IsAlpha(t[i + 1]) THEN RunEnd(t, i + 1) ELSE i

\* \s*(?P<when>[A-Za-z0-9 ,./-]+) after the date word at token d
RECURSIVE WhenEnd(_, _)
WhenEnd(t, e) ==
    IF e + 1 <= Len(t) /\ IsWhenToken(t[e + 1]) THEN WhenEnd(t, e + 1) ELSE e

WhenAfter(t, d) ==
    LET e == WhenEnd(t, d)
    IN IF e = d THEN <<" ">>
       ELSE JoinSpaces(SubSeq(t, d + 1, e)) \o (IF e < Len(t) THEN <<" ">> ELSE <<>>)

\* "to" at token i, a city after it, and a date word after the city
ToAt(t, i, dl) ==
    /\ LowerWord(t[i]) = "to"
    /\ i + 1 <= Len(t)
    /\ IsAlpha(t[i + 1])
    /\ i + 1 < dl

\* (?P<city>[A-Z][a-zA-Z]+(?:\s+[A-Z][a-zA-Z]+)*) after the "to" at token i, under
\* (?i): greedy, every word up to the last date word
CityEnd(t, i, dl) ==
    IF RunEnd(t, i + 1) < dl - 1 THEN RunEnd(t, i + 1) ELSE dl - 1

NoTrip == [matched |-> FALSE, city |-> <<>>, when |-> <<>>]
Trip(c, w) == [matched |-> TRUE, city |-> c, when |-> w]

\* TRIP_PATTERNS[0].search(t): the leftmost trip word, .* to the last "to"
TripSearch(t) ==
    LET dl == LastDateWord(t, DATE_WORDS)
        js == {j \in 1..Len(t) : LowerWord(t[j]) \in TripWords}
    IN IF js = {} THEN NoTrip
       ELSE LET j == CHOOSE j \in js : \A x \in js : j <= x
                is == {i \in (j + 1)..Len(t) : ToAt(t, i, dl)}
            IN IF is = {} THEN NoTrip
               ELSE LET i == CHOOSE i \in is : \A x \in is : x <= i
                    IN Trip(JoinSpaces(SubSeq(t, i + 1, CityEnd(t, i, dl))), WhenAfter(t, dl))

\* TRIP_PATTERNS[1].search(t): the leftmost "to", [^\n]* to the last of on|around|in|by
ToSearch(t) ==
    LET dl == LastDateWord(t, ShortDateWords)
        is == {i \in 1..Len(t) : ToAt(t, i, dl)}
    IN IF is = {} THEN NoTrip
       ELSE LET i == CHOOSE i \in is : \A x \in is : i <= x
            IN Trip(JoinSpaces(SubSeq(t, i + 1, CityEnd(t, i, dl))), WhenAfter(t, dl))

\* TRIP_PATTERNS[2].search(t): the leftmost "to", .*? to the first date word after
\* the city
HeadedSearch(t) ==
    LET dl == LastDateWord(t, DATE_WORDS)
        is == {i \in 1..Len(t) : ToAt(t, i, dl)}
    IN IF is = {} THEN NoTrip
       ELSE LET i == CHOOSE i \in is : \A x \in is : i <= x
                k == CityEnd(t, i, dl)
                ds == {d \in (k + 1)..(Len(t) - 1) : LowerWord(t[d]) \in DATE_WORDS}
                d == CHOOSE d \in ds : \A x \in ds : d <= x
            IN Trip(JoinSpaces(SubSeq(t, i + 1, k)), WhenAfter(t, d))

TRIP_PATTERNS(t) == <<TripSearch(t), ToSearch(t), HeadedSearch(t)>>

normalize_city(c) == LowerText(CollapseSpaces(Strip(c)))

NotFound == [found |-> FALSE, when |-> <<>>, city |-> <<>>]

\* The loop body without the comparison of the cities.
RECURSIVE ScanTripAnyCity(_, _)
ScanTripAnyCity(ms, city_norm) ==
    IF ms = <<>> THEN NotFound
    ELSE LET m == Head(ms)
             when == Strip(m.when)
         IN IF m.matched /\ when # <<>>
            THEN [found |-> TRUE, when |-> when, city |-> Strip(m.city)]
            ELSE ScanTripAnyCity(Tail(ms), city_norm)

\* The body of `for pat in TRIP_PATTERNS` for the matches ms of one text.
RECURSIVE ScanTrip(_, _)
ScanTrip(ms, city_norm) ==
    IF ms = <<>> THEN NotFound
    ELSE LET m == Head(ms)
             det_city == Strip(m.city)
             when == Strip(m.when)
         IN IF ~m.matched THEN ScanTrip(Tail(ms), city_norm)
            ELSE IF det_city # <<>> /\ normalize_city(det_city) # city_norm
            THEN ScanTrip(Tail(ms), city_norm)
            ELSE IF when # <<>> THEN [found |-> TRUE, when |-> when, city |-> det_city]
            ELSE ScanTrip(Tail(ms), city_norm)

MaxTripTexts == 2

TripCities == {<<"Paris">>, <<"London">>, <<"New", "York">>}
TripTargets == {<<"paris">>, <<"London">>, <<"New", " ", " ", "york">>}

\* "to CITY [3] on|next [WHEN]"
TripClauses ==
    {<<"to">> \o c \o mid \o dw \o w :
        c \in TripCities, mid \in {<<>>, <<"3">>}, dw \in {<<"on">>, <<"next">>},
        w \in {<<>>, <<"June">>, <<"June", "3">>, <<"(TBD)">>}}

TripTexts ==
    {<<"thanks">>}
    \cup {lead \o cl : lead \in {<<>>, <<"trip">>, <<"headed">>}, cl \in TripClauses}
    \cup {<<"trip">> \o cl \o <<"to", "London", "on", "July">> :
             cl \in {c \in TripClauses : c[2] = "Paris"}}

NotSeen == [seen |-> FALSE, when |-> <<>>]

\* The matches among ms whose captured city normalize-equals the target.
CityMatches(ms, target) ==
    {p \in 1..Len(ms) :
        ms[p].matched /\ normalize_city(ms[p].city) = normalize_city(target)}

\* Those of them with a 'when' phrase that is not blank.
GoodMatches(ms, target) ==
    {p \in CityMatches(ms, target) : Strip(ms[p].when) # <<>>}

\* History: the 'when' phrase of the first of the matches ps of ms, if it is
\* the first seen.
FirstSeen(old, ms, ps) ==
    IF old.seen \/ ps = {} THEN old
    ELSE [seen |-> TRUE,
          when |-> Strip(ms[CHOOSE p \in ps : \A x \in ps : p <= x].when)]

TripBegin ==
    \E city \in TripTargets :
        /\ trip = Idle
        /\ trip' = [n |-> 0, city |-> city, last |-> <<>>, done |-> FALSE,
                    result |-> NotFound, firstCity |-> NotSeen, firstGood |-> NotSeen]
        /\ UNCHANGED <<fetchVars, cars, fav>>

\* One iteration of `for t in texts`: return at the first accepted match.
TripScan ==
    \E t \in TripTexts :
        /\ trip # Idle
        /\ ~trip.done
        /\ trip.n < MaxTripTexts
        /\ LET ms == TRIP_PATTERNS(t)
               r == ScanTrip(ms, normalize_city(trip.city))
           IN trip' = [trip EXCEPT
                          !.n = @ + 1,
                          !.last = t,
                          !.done = r.found,
                          !.result = r,
                          !.firstCity = FirstSeen(@, ms, CityMatches(ms, trip.city)),
                          !.firstGood = FirstSeen(@, ms, GoodMatches(ms, trip.city))]
        /\ UNCHANGED <<fetchVars, cars, fav>>

\* texts is exhausted: return None.
TripReturnNone ==
    /\ trip # Idle
    /\ ~trip.done
    /\ trip' = [trip EXCEPT !.done = TRUE]
    /\ UNCHANGED <<fetchVars, cars, fav>>

NextTrip == TripBegin \/ TripScan \/ TripReturnNone

SpecTrip == Init /\ [][NextTrip]_vars

TripDone == trip # Idle /\ trip.done

SupplierCityEqual ==
    (TripDone /\ trip.result.found) =>
        normalize_city(trip.result.city) = normalize_city(trip.city)

\* C10 as stated: the result is the 'when' phrase of the first match, in the
\* order of the texts and of the patterns, whose captured city normalize-equals
\* the target; a match of another city never supplies it; None without such
\* a match.
C10_FirstCityMatch ==
    /\ SupplierCityEqual
    /\ TripDone =>
           IF trip.firstCity.seen
           THEN /\ trip.result.found => trip.result.when = trip.firstCity.when
                /\ trip.firstCity.when # <<>> => trip.result.found
           ELSE ~trip.result.found

\* C10 amended: ... of the first match whose captured city normalize-equals
\* the target and whose 'when' phrase is not blank ...
C10_FirstGoodMatch ==
    /\ SupplierCityEqual
    /\ TripDone =>
           IF trip.firstGood.seen
           THEN trip.result.found /\ trip.result.when = trip.firstGood.when
           ELSE ~trip.result.found

\* The second text supplies the result, from its second pattern: the first
\* text and the first pattern found another city.
C10_Witness ==
    /\ TripDone
    /\ trip.n = 2
    /\ trip.result.found
    /\ TRIP_PATTERNS(trip.last)[1].matched
    /\ normalize_city(TRIP_PATTERNS(trip.last)[1].city) # normalize_city(trip.city)
    /\ trip.firstGood.seen

====
